---- MODULE Spec2Model ----
(***************************************************************************)
(* Model of the spell parser of src/lib.rs: Spell::from_str and the three  *)
(* parsers it uses (SpellArea, SpellBreakpoint, SpellTarget).              *)
(*                                                                         *)
(* A Rust &str is UTF-8: `find` returns BYTE offsets and slices are taken  *)
(* at byte offsets, while `chars()` counts CHARACTERS.  A string is        *)
(* modelled as its sequence of bytes; an ASCII character is one byte,      *)
(* written as itself, and U+00E9 (an alphanumeric letter) is the two bytes *)
(* "C3" "A9".  Every offset of the model is a 0-based byte offset as in    *)
(* the code.                                                               *)
(***************************************************************************)
EXTENDS Integers, Sequences, FiniteSets, TLC

VARIABLES input, pc, result

vars == <<input, pc, result>>

(* ---------------------------------------------------------------- bounds *)
MaxLen == 4
MaxAreaLen == 3
MaxTargetLen == 4

(* ------------------------------------------------------------------ UTF-8 *)
\* a continuation byte never starts a character
IsContinuation(b) == b = "A9"

\* char::is_alphanumeric, by the first byte of the character
IsAlphanumeric(c) == c \in {"a", "s", "m", "d", "l", "g", "x", "M", "C3"}

None == <<>>
Some(x) == <<x>>

\* str::is_char_boundary
IsCharBoundary(s, b) == b = Len(s) \/ (b >= 0 /\ b < Len(s) /\ ~IsContinuation(s[b + 1]))

\* &s[a..b]
Slice(s, a, b) == SubSeq(s, a + 1, b)

\* &s[a..]
SliceFrom(s, a) == SubSeq(s, a + 1, Len(s))

\* the slice does not panic
SliceOk(s, a, b) == a <= b /\ b <= Len(s) /\ IsCharBoundary(s, a) /\ IsCharBoundary(s, b)

RECURSIVE FindAt(_, _, _)
FindAt(s, P, k) ==
    IF k > Len(s) THEN None
    ELSE IF s[k] \in P THEN Some(k - 1)
    ELSE FindAt(s, P, k + 1)

\* str::find with a char (or char set) pattern: byte offset of the first match
Find(s, P) == FindAt(s, P, 1)

RECURSIVE FindStrAt(_, _, _)
FindStrAt(s, pat, k) ==
    IF k + Len(pat) - 1 > Len(s) THEN None
    ELSE IF SubSeq(s, k, k + Len(pat) - 1) = pat THEN Some(k - 1)
    ELSE FindStrAt(s, pat, k + 1)

\* str::find with a string pattern
FindStr(s, pat) == FindStrAt(s, pat, 1)

\* chars(): each character by its first byte
Chars(s) == SelectSeq(s, LAMBDA b : ~IsContinuation(b))

\* chars().next()
CharsNext(s) == IF s = <<>> THEN None ELSE Some(s[1])

\* chars().nth(n): n counts characters, not bytes
CharsNth(s, n) ==
    LET chars == Chars(s)
    IN IF n < Len(chars) THEN Some(chars[n + 1]) ELSE None

\* str::split(c): never empty, empty pieces are kept
RECURSIVE Split(_, _)
Split(s, c) ==
    LET i == Find(s, {c})
    IN IF i = None THEN <<s>>
       ELSE <<SubSeq(s, 1, i[1])>> \o Split(SubSeq(s, i[1] + 2, Len(s)), c)

(* ---------------------------------------------------------------- errors *)
ErrMissingParen == "missing ')' in spell area"
ErrNotLongEnough == "spell not long enough"
ErrInvalidBreakpoint == "invalid breakpoint for area"
ErrEmptyTarget == "empty target!"
ErrNoClosingFocus == "spell ends without closing focus"
ErrEndsTooEarly == "spell ends too early while looking for focus"
ErrExpectedAssign == "expected '=' after component but could not find one"
PanicImpossibleChar == "impossible to match character"
PanicShorter == "spell is shorter than itself"
PanicSlice == "byte index is not a char boundary"

(* --------------------------------------------------------------- results *)
NoTarget == [tag |-> "", css |-> <<>>, vars |-> <<>>]
CSSValue(t) == [tag |-> "CSSValue", css |-> t, vars |-> <<>>]
Variables(v) == [tag |-> "Variables", css |-> <<>>, vars |-> v]

Breakpoint(bp) == [tag |-> "Breakpoint", bp |-> bp, mq |-> <<>>]
MediaQuery(t) == [tag |-> "MediaQuery", bp |-> "", mq |-> t]

Value(area, focus, effect, component, target) ==
    [kind |-> "Ok", err |-> "", area |-> area, focus |-> focus, effect |-> effect,
     component |-> component, target |-> target]

Err(e) == [kind |-> "Err", err |-> e, area |-> None, focus |-> None, effect |-> None,
           component |-> <<>>, target |-> NoTarget]
Panic(e) == [kind |-> "Panic", err |-> e, area |-> None, focus |-> None, effect |-> None,
             component |-> <<>>, target |-> NoTarget]
NoResult == [kind |-> "", err |-> "", area |-> None, focus |-> None, effect |-> None,
             component |-> <<>>, target |-> NoTarget]

\* results of the parsers of the parts, carried in the same record
OkArea(a) == Value(Some(a), None, None, <<>>, NoTarget)
OkTarget(t) == Value(None, None, None, <<>>, t)

(* ------------------------------------------------ SpellBreakpoint::from_str *)
\* a mutant: the keywords matched without regard to case
BreakpointFromStrAnyCase(bp) ==
    IF bp = <<"s", "m">> THEN OkArea(Breakpoint("Small"))
    ELSE IF bp \in {<<"m", "d">>, <<"M", "d">>} THEN OkArea(Breakpoint("Medium"))
    ELSE IF bp = <<"l", "g">> THEN OkArea(Breakpoint("Large"))
    ELSE IF bp = <<"x", "l">> THEN OkArea(Breakpoint("XLarge"))
    ELSE IF bp = <<"x", "x", "l">> THEN OkArea(Breakpoint("XXLarge"))
    ELSE Err(ErrInvalidBreakpoint)

BreakpointFromStr(bp) ==
    IF bp = <<"s", "m">> THEN OkArea(Breakpoint("Small"))
    ELSE IF bp = <<"m", "d">> THEN OkArea(Breakpoint("Medium"))
    ELSE IF bp = <<"l", "g">> THEN OkArea(Breakpoint("Large"))
    ELSE IF bp = <<"x", "l">> THEN OkArea(Breakpoint("XLarge"))
    ELSE IF bp = <<"x", "x", "l">> THEN OkArea(Breakpoint("XXLarge"))
    ELSE Err(ErrInvalidBreakpoint)

(* ------------------------------------------------------ SpellArea::from_str *)
AreaFromStr(area) ==
    IF CharsNext(area) = Some("(")
    THEN LET i == Find(area, {")"})
         IN IF i # None THEN OkArea(MediaQuery(Slice(area, 1, i[1])))
            ELSE Err(ErrMissingParen)
    ELSE IF CharsNext(area) = None THEN Err(ErrNotLongEnough)
    ELSE BreakpointFromStr(area)

(* ---------------------------------------------------- SpellTarget::from_str *)
\* a mutant: the test for an underscore left out
IsVariablesAllOnly(target) ==
    LET chars == Chars(target)
    IN \A k \in 1..Len(chars) : IsAlphanumeric(chars[k]) \/ chars[k] = "_"

IsVariables(target) ==
    LET chars == Chars(target)
    IN /\ \E k \in 1..Len(chars) : chars[k] = "_"
       /\ \A k \in 1..Len(chars) : IsAlphanumeric(chars[k]) \/ chars[k] = "_"

TargetFromStr(target) ==
    IF ~IsVariables(target) THEN OkTarget(CSSValue(target))
    ELSE LET variables == Split(target, "_")
         IN IF variables = <<>> THEN Err(ErrEmptyTarget)
            ELSE OkTarget(Variables(variables))

(* ---------------------------------------------------------- Spell::from_str *)
\* a mutant: the last `__` instead of the first
AreaEndLast(spell) ==
    LET K == {k \in 1..(Len(spell) - 1) : spell[k] = "_" /\ spell[k + 1] = "_"}
    IN IF K = {} THEN None ELSE Some((CHOOSE k \in K : \A j \in K : j <= k) - 1)

\* let area_end = spell.find("__")
AreaEnd(spell) == FindStr(spell, <<"_", "_">>)

\* a mutant: a failure of the area parse dropped (`.ok()` for `?`)
AreaResultLenient(spell) ==
    LET area_end == AreaEnd(spell)
        area == AreaFromStr(Slice(spell, 0, area_end[1]))
    IN IF area_end # None /\ area.kind = "Ok"
       THEN area
       ELSE Value(None, None, None, <<>>, NoTarget)

\* let area = match area_end { Some(i) => Some(spell[..i].parse()?), None => None }
AreaResult(spell) ==
    LET area_end == AreaEnd(spell)
    IN IF area_end # None
       THEN AreaFromStr(Slice(spell, 0, area_end[1]))
       ELSE Value(None, None, None, <<>>, NoTarget)

\* let focus_start = match area_end { Some(i) => i + 2, None => 0 }
FocusStart(spell) ==
    LET area_end == AreaEnd(spell)
    IN IF area_end # None THEN area_end[1] + 2 ELSE 0

\* a mutant: a `{` without `}` taken for no focus instead of a failure
FocusLenResultUnclosed(spell) ==
    LET rest == SliceFrom(spell, FocusStart(spell))
    IN IF CharsNext(rest) = Some("{")
       THEN [err |-> "", len |-> Find(rest, {"}"})]
       ELSE IF CharsNext(rest) = None
            THEN [err |-> ErrEndsTooEarly, len |-> None]
            ELSE [err |-> "", len |-> None]

\* let focus_len = match spell[focus_start..].chars().next() { ... }
FocusLenResult(spell) ==
    LET rest == SliceFrom(spell, FocusStart(spell))
        close == Find(rest, {"}"})
    IN IF CharsNext(rest) = Some("{")
       THEN IF close # None
            THEN [err |-> "", len |-> close]
            ELSE [err |-> ErrNoClosingFocus, len |-> None]
       ELSE IF CharsNext(rest) = None
            THEN [err |-> ErrEndsTooEarly, len |-> None]
            ELSE [err |-> "", len |-> None]

\* let focus = match focus_len { Some(i) => Some(spell[focus_start+1..focus_start+i]), .. }
Focus(spell) ==
    LET len == FocusLenResult(spell).len
        focus_start == FocusStart(spell)
    IN IF len # None
       THEN Some(Slice(spell, focus_start + 1, focus_start + len[1]))
       ELSE None

\* let focus_len = focus_len.unwrap_or(0)
FocusLen(spell) ==
    LET len == FocusLenResult(spell).len
    IN IF len # None THEN len[1] ELSE 0

\* a mutant: the effect looked for from the start of the focus block
EffectStartAtFocus(spell) == FocusStart(spell)

\* let effect_start = focus_start + focus_len + if focus_len != 0 { 1 } else { 0 }
EffectStart(spell) ==
    LET focus_len == FocusLen(spell)
    IN FocusStart(spell) + focus_len + (IF focus_len # 0 THEN 1 ELSE 0)

\* let effect = match ... { Some(i) => match spell.chars().nth(effect_start + i) ... }
EffectResult(spell) ==
    LET effect_start == EffectStart(spell)
        i == Find(SliceFrom(spell, effect_start), {":", "="})
        c == CharsNth(spell, effect_start + i[1])
    IN IF i = None THEN [panic |-> "", effect |-> None]
       ELSE IF c = None THEN [panic |-> PanicShorter, effect |-> None]
       ELSE IF c[1] = "=" THEN [panic |-> "", effect |-> None]
       ELSE IF c[1] = ":"
            THEN [panic |-> "",
                  effect |-> Some(Split(Slice(spell, effect_start, effect_start + i[1]), ","))]
            ELSE [panic |-> PanicImpossibleChar, effect |-> None]

Effect(spell) == EffectResult(spell).effect

\* let component_start = match effect { Some(_) => effect_start + find(':').unwrap() + 1, ... }
ComponentStart(spell) ==
    LET effect_start == EffectStart(spell)
    IN IF Effect(spell) # None
       THEN effect_start + Find(SliceFrom(spell, effect_start), {":"})[1] + 1
       ELSE IF Focus(spell) # None
            THEN FocusStart(spell) + FocusLen(spell) + 1
            ELSE FocusStart(spell)

\* a mutant: the last `=` instead of the first
ComponentLenLast(spell) ==
    LET tail == SliceFrom(spell, ComponentStart(spell))
        K == {k \in 1..Len(tail) : tail[k] = "="}
    IN IF K = {} THEN None ELSE Some((CHOOSE k \in K : \A j \in K : j <= k) - 1)

\* spell[component_start..].find('=')
ComponentLen(spell) == Find(SliceFrom(spell, ComponentStart(spell)), {"="})

\* the slices of each stage are taken at char boundaries inside the string
AreaSliceOk(spell) ==
    LET area_end == AreaEnd(spell)
    IN area_end # None => SliceOk(spell, 0, area_end[1])

FocusSliceOk(spell) ==
    LET len == FocusLenResult(spell).len
        focus_start == FocusStart(spell)
    IN len # None => SliceOk(spell, focus_start + 1, focus_start + len[1])

ComponentSliceOk(spell) ==
    /\ Effect(spell) # None => Find(SliceFrom(spell, EffectStart(spell)), {":"}) # None
    /\ SliceOk(spell, ComponentStart(spell), Len(spell))

SpellFromStr(spell) ==
    LET area == AreaResult(spell)
        focus_len == FocusLenResult(spell)
        effect == EffectResult(spell)
        component_start == ComponentStart(spell)
        component_len == ComponentLen(spell)
        component == Slice(spell, component_start, component_start + component_len[1])
        target == TargetFromStr(SliceFrom(spell, component_start + component_len[1] + 1))
    IN IF ~AreaSliceOk(spell) THEN Panic(PanicSlice)
       ELSE IF area.kind = "Err" THEN area
       ELSE IF ~SliceOk(spell, FocusStart(spell), Len(spell)) THEN Panic(PanicSlice)
       ELSE IF focus_len.err # "" THEN Err(focus_len.err)
       ELSE IF ~FocusSliceOk(spell) THEN Panic(PanicSlice)
       ELSE IF ~SliceOk(spell, EffectStart(spell), Len(spell)) THEN Panic(PanicSlice)
       ELSE IF effect.panic # "" THEN Panic(effect.panic)
       ELSE IF ~ComponentSliceOk(spell) THEN Panic(PanicSlice)
       ELSE IF component_len = None THEN Err(ErrExpectedAssign)
       ELSE IF target.kind = "Err" THEN target
       ELSE Value(area.area, Focus(spell), effect.effect, component, target.target)

(* ------------------------------------------------------------------ inputs *)
\* the strings of at most n characters of A (A: characters as byte sequences)
RECURSIVE StrUpTo(_, _)
StrUpTo(A, n) ==
    IF n = 0 THEN {<<>>}
    ELSE LET shorter == StrUpTo(A, n - 1)
         IN shorter \cup {s \o c : s \in shorter, c \in A}

E9 == <<"C3", "A9">>

\* characters of the text after the area: the delimiters of the grammar, a
\* one-byte letter and a two-byte letter
Alphabet == {<<"_">>, <<"{">>, <<"}">>, <<":">>, <<"=">>, <<",">>, <<"a">>, E9}

\* openings put before that text: a keyword, media queries (closed, with a
\* two-byte character, unclosed), a focus block with a two-byte character
Heads == {<<>>, <<"m", "d">>, <<"(", "a", ")">>, <<"(">> \o E9 \o <<")">>, <<"(", "a">>,
          <<"{">> \o E9 \o <<"}">>}

AreaAlphabet == {<<"(">>, <<")">>, <<"s">>, <<"m">>, <<"d">>, <<"l">>, <<"g">>, <<"x">>,
                 <<"M">>, E9}

TargetAlphabet == {<<"_">>, <<"a">>, <<"x">>, E9, <<",">>, <<"=">>}

(* ------------------------------------------------------------------ actions *)
Init ==
    /\ \E h \in Heads, b \in StrUpTo(Alphabet, MaxLen) : input = h \o b
    /\ pc = "call"
    /\ result = NoResult

InitArea ==
    /\ input \in StrUpTo(AreaAlphabet, MaxAreaLen)
    /\ pc = "call"
    /\ result = NoResult

InitTarget ==
    /\ input \in StrUpTo(TargetAlphabet, MaxTargetLen)
    /\ pc = "call"
    /\ result = NoResult

\* input.parse::<Spell>()
ParseSpell ==
    /\ pc = "call"
    /\ result' = SpellFromStr(input)
    /\ pc' = "Spell"
    /\ UNCHANGED input

\* input.parse::<SpellArea>()
ParseArea ==
    /\ pc = "call"
    /\ result' = AreaFromStr(input)
    /\ pc' = "SpellArea"
    /\ UNCHANGED input

\* format!("{input}__a=a").parse::<Spell>(): the spell whose area text is input
ParseSpellWithArea ==
    /\ pc = "call"
    /\ result' = SpellFromStr(input \o <<"_", "_", "a", "=", "a">>)
    /\ pc' = "Spell"
    /\ UNCHANGED input

\* input.parse::<SpellTarget>()
ParseTarget ==
    /\ pc = "call"
    /\ result' = TargetFromStr(input)
    /\ pc' = "SpellTarget"
    /\ UNCHANGED input

Next == ParseSpell
NextArea == ParseArea \/ ParseSpellWithArea
NextTarget == ParseTarget

Spec == Init /\ [][Next]_vars
SpecArea == InitArea /\ [][NextArea]_vars
SpecTarget == InitTarget /\ [][NextTarget]_vars

(* ====================================================== properties ====== *)
\* index (1-based) of the first element of s that is in P
FirstIdx(s, P) == CHOOSE k \in 1..Len(s) : s[k] \in P /\ \A j \in 1..(k - 1) : s[j] \notin P

Occurs(s, P) == \E k \in 1..Len(s) : s[k] \in P

\* the pieces of s between the occurrences of c, by their ends
RECURSIVE Join(_, _)
Join(pieces, c) ==
    IF Len(pieces) = 1 THEN pieces[1]
    ELSE pieces[1] \o <<c>> \o Join(Tail(pieces), c)

\* every character is alphanumeric or `_` (a continuation byte belongs to the
\* character its first byte starts)
AllAlnumOrUnderscore(t) ==
    \A k \in 1..Len(t) : t[k] = "_" \/ IsAlphanumeric(t[k]) \/ (k > 1 /\ t[k] = "A9" /\ t[k - 1] = "C3")

(* ------------------------------------------------------------------- C5 -- *)
\* C5: the target parser never fails; it returns Variables(t split on `_`, empty
\* tokens kept, order kept) iff t contains a `_` and every character of t is
\* alphanumeric or `_`, and CSSValue(t), t unchanged, otherwise.
C5_TargetClassification ==
    pc = "SpellTarget" =>
        /\ result.kind = "Ok"
        /\ IF Occurs(input, {"_"}) /\ AllAlnumOrUnderscore(input)
           THEN /\ result.target.tag = "Variables"
                /\ Len(result.target.vars) = Cardinality({k \in 1..Len(input) : input[k] = "_"}) + 1
                /\ \A i \in 1..Len(result.target.vars) : ~Occurs(result.target.vars[i], {"_"})
                /\ Join(result.target.vars, "_") = input
           ELSE result.target = CSSValue(input)

\* a variables target with an empty token kept (leading, trailing or doubled `_`)
C5_Witness ==
    /\ pc = "SpellTarget"
    /\ result.target.tag = "Variables"
    /\ \E i \in 1..Len(result.target.vars) : result.target.vars[i] = <<>>
    /\ \E i \in 1..Len(result.target.vars) : result.target.vars[i] # <<>>

(* ------------------------------------------------------------------- C8 -- *)
KeywordSize ==
    (<<"s", "m">> :> "Small") @@ (<<"m", "d">> :> "Medium") @@ (<<"l", "g">> :> "Large")
    @@ (<<"x", "l">> :> "XLarge") @@ (<<"x", "x", "l">> :> "XXLarge")

\* what the area text p is to give, as the claim words it
ExpectedArea(p) ==
    IF p = <<>> THEN Err(ErrNotLongEnough)
    ELSE IF p[1] = "("
         THEN IF Occurs(p, {")"})
              THEN OkArea(MediaQuery(SubSeq(p, 2, FirstIdx(p, {")"}) - 1)))
              ELSE Err(ErrMissingParen)
    ELSE IF p \in DOMAIN KeywordSize THEN OkArea(Breakpoint(KeywordSize[p]))
    ELSE Err(ErrInvalidBreakpoint)

\* C8: the area is a function of the prefix p: empty fails (spell not long enough);
\* `(`... gives MediaQuery(text up to the first `)`) or fails without `)`; anything
\* else gives the Breakpoint of exactly sm|md|lg|xl|xxl and fails (unknown breakpoint)
\* otherwise; and k__a=a parses with area Breakpoint(size of k) for each keyword k.
C8_AreaOfPrefix ==
    /\ pc = "SpellArea" => result = ExpectedArea(input)
    /\ pc = "Spell" /\ input \in DOMAIN KeywordSize =>
           result = Value(Some(Breakpoint(KeywordSize[input])), None, None, <<"a">>,
                          CSSValue(<<"a">>))
    /\ pc = "Spell" /\ ExpectedArea(input).kind = "Err" => result = ExpectedArea(input)

\* the spell xxl__a=a parsed with the XXLarge breakpoint
C8_Witness ==
    /\ pc = "Spell"
    /\ input = <<"x", "x", "l">>
    /\ result.area = Some(Breakpoint("XXLarge"))

(* ------------------------------------------------- the parts of a spell -- *)
\* s contains `__`
HasAreaDelimiter(s) == \E k \in 1..(Len(s) - 1) : s[k] = "_" /\ s[k + 1] = "_"

\* index (1-based) of the first `__` of s
AreaDelimiterAt(s) ==
    CHOOSE k \in 1..(Len(s) - 1) :
        /\ s[k] = "_" /\ s[k + 1] = "_"
        /\ \A j \in 1..(k - 1) : ~(s[j] = "_" /\ s[j + 1] = "_")

\* the text before the first `__`
AreaPrefix(s) == SubSeq(s, 1, AreaDelimiterAt(s) - 1)

\* the text after the area prefix: two characters past the first `__`, or all of s
AfterArea(s) == IF HasAreaDelimiter(s) THEN SubSeq(s, AreaDelimiterAt(s) + 2, Len(s)) ELSE s

\* the area stage does not fail on s
AreaPasses(s) == HasAreaDelimiter(s) => ExpectedArea(AreaPrefix(s)).kind = "Ok"

BeginsWithBrace(t) == t # <<>> /\ t[1] = "{"

\* for t beginning with `{` and holding a `}`: the text between them, and after
InBraces(t) == SubSeq(t, 2, FirstIdx(t, {"}"}) - 1)
AfterBraces(t) == SubSeq(t, FirstIdx(t, {"}"}) + 1, Len(t))

(* ------------------------------------------------------------------- C1 -- *)
\* C1 (as claimed): a successful parse never carries both a focus and an effect.
C1_FocusEffectExclusive ==
    pc = "Spell" /\ result.kind = "Ok" => ~(result.focus # None /\ result.effect # None)

\* C1 (amended): a successful parse carries a focus exactly when the text after the
\* area prefix begins with `{`, and then the focus is the text in the braces; it
\* may carry an effect as well, and only when a `:` follows the closing `}`.
C1_FocusIffBrace ==
    pc = "Spell" /\ result.kind = "Ok" =>
        /\ result.focus # None <=> BeginsWithBrace(AfterArea(input))
        /\ result.focus # None => result.focus = Some(InBraces(AfterArea(input)))
        /\ result.focus # None /\ result.effect # None =>
               Occurs(AfterBraces(AfterArea(input)), {":"})

\* a spell returned with a focus and an effect
C1_Witness ==
    /\ pc = "Spell"
    /\ result.kind = "Ok"
    /\ result.focus # None
    /\ result.effect # None

(* ------------------------------------------------------------------- C2 -- *)
\* C2: parsing is total: every input gives a Spell or a classified failure, never
\* a panic.
C2_NeverPanics == pc = "Spell" => result.kind \in {"Ok", "Err"}

(* ------------------------------------------------------------------- C3 -- *)
\* the input has the form [area__]{f}e1,...,en:c=t of the claim
C3_Form(s) ==
    LET r == AfterArea(s)
        after == AfterBraces(r)
        d == FirstIdx(after, {":", "="})
    IN /\ AreaPasses(s)
       /\ ~HasAreaDelimiter(r)
       /\ BeginsWithBrace(r) /\ Occurs(r, {"}"})
       /\ Occurs(after, {":"}) /\ after[d] = ":"
       /\ Occurs(SubSeq(after, d + 1, Len(after)), {"="})

\* C3: every input [area__]{f}e1,...,en:c=t parses with focus f, effect
\* [e1,...,en], component c and the target parsed from t.
C3_FocusThenEffect ==
    pc = "Spell" /\ C3_Form(input) =>
        LET r == AfterArea(input)
            after == AfterBraces(r)
            d == FirstIdx(after, {":", "="})
            ct == SubSeq(after, d + 1, Len(after))
            q == FirstIdx(ct, {"="})
        IN result = Value(IF HasAreaDelimiter(input)
                          THEN ExpectedArea(AreaPrefix(input)).area ELSE None,
                          Some(InBraces(r)),
                          Some(Split(SubSeq(after, 1, d - 1), ",")),
                          SubSeq(ct, 1, q - 1),
                          TargetFromStr(SubSeq(ct, q + 1, Len(ct))).target)

(* ------------------------------------------------------------------- C4 -- *)
\* C4: when the text r after the area prefix does not begin with `{`: if its first
\* `:` or `=` is a `:`, effect is the text before it split on `,` and the component
\* begins after it; otherwise effect is absent and the component begins at r;
\* whatever characters precede the delimiter.
C4_EffectDetection ==
    LET r == AfterArea(input)
        d == FirstIdx(r, {":", "="})
        ct == SubSeq(r, d + 1, Len(r))
    IN pc = "Spell" /\ AreaPasses(input) /\ r # <<>> /\ r[1] # "{" =>
           /\ result.kind # "Panic"
           /\ result.kind = "Ok" =>
                  IF Occurs(r, {":", "="}) /\ r[d] = ":"
                  THEN /\ result.effect = Some(Split(SubSeq(r, 1, d - 1), ","))
                       /\ Occurs(ct, {"="})
                       /\ result.component = SubSeq(ct, 1, FirstIdx(ct, {"="}) - 1)
                  ELSE /\ result.effect = None
                       /\ Occurs(r, {"="})
                       /\ result.component = SubSeq(r, 1, FirstIdx(r, {"="}) - 1)

(* ------------------------------------------------------------------- C6 -- *)
\* s with every `:`, `,` and `=` inside the braces of its focus block made a letter
NeutralInBraces(s) ==
    LET r == AfterArea(s)
        open == Len(s) - Len(r) + 1
        close == open + FirstIdx(r, {"}"}) - 1
    IN [k \in 1..Len(s) |->
           IF k > open /\ k < close /\ s[k] \in {":", ",", "="} THEN "a" ELSE s[k]]

\* C6: when the area stage passes and the text after the area prefix begins with
\* `{`: without a `}` the parse fails with the unterminated-focus error; with one,
\* the focus of a returned Spell is the text between the `{` and the first `}`, and
\* the `:`, `,` and `=` inside the braces change neither the outcome nor the effect
\* nor the component.
C6_FocusExtraction ==
    LET r == AfterArea(input)
        other == SpellFromStr(NeutralInBraces(input))
    IN pc = "Spell" /\ AreaPasses(input) /\ BeginsWithBrace(r) =>
           IF ~Occurs(r, {"}"}) THEN result = Err(ErrNoClosingFocus)
           ELSE /\ result.kind = "Ok" => result.focus = Some(InBraces(r))
                /\ other.kind = result.kind
                /\ other.err = result.err
                /\ other.effect = result.effect
                /\ other.component = result.component

\* a spell returned whose focus holds a delimiter, with no effect
C6_Witness ==
    /\ pc = "Spell"
    /\ result.kind = "Ok"
    /\ result.focus # None
    /\ Occurs(result.focus[1], {":", "="})
    /\ result.effect = None

(* ------------------------------------------------------------------- C7 -- *)
\* C7: a returned Spell has no area iff the input has no `__`; with a `__` anywhere,
\* the text before the first one is parsed as the area, its failure fails the spell,
\* and the rest of the grammar starts two characters past it; without, at offset 0.
C7_AreaByDelimiter ==
    pc = "Spell" =>
        /\ result.kind = "Ok" => (result.area = None <=> ~HasAreaDelimiter(input))
        /\ HasAreaDelimiter(input) =>
               /\ ExpectedArea(AreaPrefix(input)).kind = "Err" =>
                      result = ExpectedArea(AreaPrefix(input))
               /\ result.kind = "Ok" => result.area = ExpectedArea(AreaPrefix(input)).area
        /\ FocusStart(input) = (IF HasAreaDelimiter(input) THEN AreaDelimiterAt(input) + 1 ELSE 0)
        /\ AreaPasses(input) /\ AfterArea(input) = <<>> => result = Err(ErrEndsTooEarly)

\* the only `__` stands in the target text, and the text before it, `=` included,
\* was parsed as the area
C7_Witness ==
    /\ pc = "Spell"
    /\ HasAreaDelimiter(input)
    /\ Occurs(AreaPrefix(input), {"="})
    /\ result = Err(ErrInvalidBreakpoint)

(* ------------------------------------------------------------------- C9 -- *)
\* C9: when neither the area nor the focus/effect section fails: without a `=` at
\* or after the offset where the component starts the parse fails with the
\* missing-assignment error; with one, the component is the text before the first
\* such `=` and the target is parsed from all the text after it.
C9_MissingAssignment ==
    LET tail == SliceFrom(input, ComponentStart(input))
        q == FirstIdx(tail, {"="})
    IN pc = "Spell" /\ result.kind # "Panic"
         /\ result.err \notin {ErrMissingParen, ErrNotLongEnough, ErrInvalidBreakpoint,
                               ErrNoClosingFocus, ErrEndsTooEarly} =>
           IF ~Occurs(tail, {"="}) THEN result = Err(ErrExpectedAssign)
           ELSE /\ result.kind = "Ok"
                /\ ~Occurs(result.component, {"="})
                /\ result.component = SubSeq(tail, 1, q - 1)
                /\ result.target = TargetFromStr(SubSeq(tail, q + 1, Len(tail))).target

\* a focus and an effect were parsed from one-byte text and the `=` is missing
C9_Witness ==
    /\ pc = "Spell"
    /\ ~Occurs(input, {"C3"})
    /\ result = Err(ErrExpectedAssign)
    /\ Focus(input) # None
    /\ Effect(input) # None

(* ------------------------------------------------------------------ C10 -- *)
\* C10: the failure returned is that of the earliest failing stage: an area failure
\* before the ends-too-early and unterminated-focus failures, and these before the
\* missing-assignment failure.
C10_FirstFailureWins ==
    LET r == AfterArea(input)
    IN pc = "Spell" =>
           /\ ~AreaPasses(input) => result = ExpectedArea(AreaPrefix(input))
           /\ AreaPasses(input) /\ r = <<>> => result = Err(ErrEndsTooEarly)
           /\ AreaPasses(input) /\ BeginsWithBrace(r) /\ ~Occurs(r, {"}"}) =>
                  result = Err(ErrNoClosingFocus)
           /\ result = Err(ErrExpectedAssign) =>
                  /\ AreaPasses(input)
                  /\ r # <<>>
                  /\ BeginsWithBrace(r) => Occurs(r, {"}"})
                  /\ ~Occurs(SliceFrom(input, ComponentStart(input)), {"="})

\* an input failing in the area stage and in the focus stage (as xx__{a)
C10_Witness ==
    /\ pc = "Spell"
    /\ ~AreaPasses(input)
    /\ BeginsWithBrace(AfterArea(input))
    /\ ~Occurs(AfterArea(input), {"}", "="})
    /\ result = Err(ErrInvalidBreakpoint)

====
